---- MODULE Spec2Model ----
(***************************************************************************)
(* sequelize-dry-run: createDryRun(options) returns an executor {up, down} *)
(* that runs migrations with sequelize.query and the two SequelizeStorage  *)
(* hooks patched, records the SQL that would have run, and restores the    *)
(* patched references in a finally block.                                  *)
(*                                                                         *)
(* Strings are sequences of atoms (an atom is a piece of text); string     *)
(* concatenation is \o, toLowerCase folds each atom, startsWith and        *)
(* includes are prefix and contiguous-subsequence tests.                   *)
(***************************************************************************)
EXTENDS Integers, Sequences, FiniteSets, TLC

(* ------------------------------- bounds -------------------------------- *)

\* length of an executor's capturedQueries array (the code never empties it)
\* in the orchestration scenarios, and in the scenarios that make every call
MaxBuffer == 3
CallsBuffer == 2

\* length of the statement lists handed to the formatter on its own
MaxStatements == 3

\* length of capturedQueries at which overlapping runs stop starting procedures
OverlapBuffer == 2

\* executors built on the one database handle
Executors == {"e1", "e2"}
NoExec == "none"

\* run slots: a slot holds one call of up()/down() from entry to settlement
Slots == {"r1", "r2"}

\* who calls sequelize.query: the host application, or the code running
\* inside the run of a slot (the runner during discovery, a migration)
App == "app"

(* ------------------------------- strings ------------------------------- *)

\* String.prototype.toLowerCase on one atom
LowerAtom(a) ==
    CASE a = "SELECT" -> "select"
      [] a = "Select" -> "select"
      [] a = "PRAGMA" -> "pragma"
      [] a = "Show" -> "show"
      [] a = "DESCRIBE" -> "describe"
      [] a = "SequelizeMeta" -> "sequelizemeta"
      [] a = "Migrations" -> "migrations"
      [] a = "INFORMATION_SCHEMA" -> "information_schema"
      [] a = "CREATE TABLE " -> "create table "
      [] a = "DROP TABLE " -> "drop table "
      [] a = "INSERT INTO " -> "insert into "
      [] a = "DELETE FROM " -> "delete from "
      [] a = " FROM " -> " from "
      [] a = " (name) VALUES ('x')" -> " (name) values ('x')"
      [] a = " (id INTEGER)" -> " (id integer)"
      [] OTHER -> a

toLowerCase(s) == [i \in 1..Len(s) |-> LowerAtom(s[i])]

\* String.prototype.toUpperCase, used on the direction only
toUpperCase(s) ==
    [i \in 1..Len(s) |->
        CASE s[i] = "up" -> "UP" [] s[i] = "down" -> "DOWN" [] OTHER -> s[i]]

startsWith(s, p) == Len(s) >= Len(p) /\ SubSeq(s, 1, Len(p)) = p

includes(s, p) ==
    \E k \in 0..(Len(s) - Len(p)) : SubSeq(s, k + 1, k + Len(p)) = p

(* ------------------------- inputs: names, tables ----------------------- *)

MigrationNames == {<<"0001-create-users.js">>, <<"0002-add-email.js">>}

DefaultTableName == <<"SequelizeMeta">>

\* options.tableName as given to createDryRun (given = FALSE: undefined)
TableNameOptions ==
    { [given |-> FALSE, value |-> <<>>],
      [given |-> TRUE, value |-> <<"SequelizeMeta">>],
      [given |-> TRUE, value |-> <<"Migrations">>] }

(* ------------------------------ statements ----------------------------- *)

\* string payloads a caller may hand to sequelize.query
SqlTexts ==
    { <<"CREATE TABLE ", "users", " (id INTEGER)">>,
      <<"INSERT INTO ", "SequelizeMeta", " (name) VALUES ('x')">>,
      <<"DELETE FROM ", "information_schema", "_backup">>,
      <<"  ", "select", " 1">>,
      <<"SELECT", " name", " FROM ", "SequelizeMeta">>,
      <<"PRAGMA", " table_info(users)">>,
      <<"Show", " tables">>,
      <<"DESCRIBE", " users">> }

\* a payload is what typeof sees plus its content
StringPayload(s) == [typeof |-> "string", value |-> s]
QueryObject == [typeof |-> "object", value |-> <<"{ query: 'DROP TABLE users', values: [] }">>]

Payloads == {StringPayload(s) : s \in SqlTexts} \cup {QueryObject}

\* sequelize.constructor.QueryTypes, and the absence of options.type
NoType == "undefined"
QueryTypes == {"SELECT", "INSERT", "UPDATE", "DELETE", "RAW"}
OptionsSet == [type : QueryTypes \cup {NoType}]

\* a call of sequelize.query: its two arguments
Calls == Payloads \X OptionsSet

\* the calls made by the migrations of the orchestration scenarios
MigrationCalls ==
    { <<StringPayload(<<"CREATE TABLE ", "users", " (id INTEGER)">>), [type |-> NoType]>>,
      <<StringPayload(<<"INSERT INTO ", "SequelizeMeta", " (name) VALUES ('x')">>),
        [type |-> "INSERT"]>>,
      <<StringPayload(<<"SELECT", " name", " FROM ", "SequelizeMeta">>),
        [type |-> "SELECT"]>> }

(* ------------------------------ classifier ----------------------------- *)

MetadataKeywords == {<<"pragma">>, <<"show">>, <<"describe">>, <<"select">>}

\* METADATA_QUERIES.test(s): /^(pragma|show|describe|select)|information_schema/i
\* the alternation is (anchored keyword) | (information_schema anywhere)
METADATA_QUERIES(s) ==
    LET folded == toLowerCase(s)
    IN  \/ \E k \in MetadataKeywords : startsWith(folded, k)
        \/ includes(folded, <<"information_schema">>)

\* the classifier with "describe" left out of the keyword list
shouldPassThroughNoDescribe(sql, t) ==
    LET lower == toLowerCase(sql)
    IN  \/ startsWith(lower, <<"select">>) /\ includes(lower, toLowerCase(t))
        \/ \E k \in {<<"pragma">>, <<"show">>, <<"select">>} : startsWith(lower, k)
        \/ includes(lower, <<"information_schema">>)

shouldPassThrough(sql, t) ==
    LET lower == toLowerCase(sql)
    IN  \/ startsWith(lower, <<"select">>) /\ includes(lower, toLowerCase(t))
        \/ METADATA_QUERIES(lower)

(* ------------------------------ formatter ------------------------------ *)

\* "=".repeat(70)
Banner == <<"======================================================================">>

\* Array.prototype.join: the elements with sep between neighbours
RECURSIVE join(_, _)
join(output, sep) ==
    IF Len(output) = 0 THEN <<>>
    ELSE IF Len(output) = 1 THEN output[1]
    ELSE output[1] \o sep \o join(Tail(output), sep)

\* a formatter that lists the statements last to first
formatQueriesReversed(name, direction, queries) ==
    LET head == << <<"\n">> \o Banner,
                   <<"Migration ">> \o toUpperCase(direction) \o <<": ">> \o name,
                   Banner >>
        n == Len(queries)
    IN  IF n = 0
        THEN join(head \o << <<"(No SQL generated)\n">> >>, <<"\n">>)
        ELSE join(head \o [i \in 1..n |->
                               <<ToString(i), ". ">> \o queries[n + 1 - i] \o <<"\n">>],
                  <<"\n">>)

\* formatQueries: the lines pushed to output, joined by "\n"
formatQueries(name, direction, queries) ==
    LET head == << <<"\n">> \o Banner,
                   <<"Migration ">> \o toUpperCase(direction) \o <<": ">> \o name,
                   Banner >>
    IN  IF Len(queries) = 0
        THEN join(head \o << <<"(No SQL generated)\n">> >>, <<"\n">>)
        ELSE join(head \o [i \in 1..Len(queries) |->
                               <<ToString(i), ". ">> \o queries[i] \o <<"\n">>],
                  <<"\n">>)

(* -------------------------------- state -------------------------------- *)

VARIABLES
    query,            \* sequelize.query: the function currently installed
    logMigration,     \* SequelizeStorage.prototype.logMigration
    unlogMigration,   \* SequelizeStorage.prototype.unlogMigration
    created,          \* executor -> createDryRun has returned it
    tableName,        \* executor -> its tableName
    originals,        \* executor -> its originals {query, logMigration, unlogMigration}
    boundTarget,      \* executor -> the function its originals.query is bound from
    capturedQueries,  \* executor -> its capturedQueries array
    run,              \* slot -> the local state of one call of up()/down()
    obs,              \* slot -> what an observer of that call has seen so far
    last,             \* the call in progress (NoCall when there is none)
    slots,            \* the slots callers may use
    builders,         \* the executors callers may build
    callPool,         \* the calls of sequelize.query callers may make
    runnerLists,      \* the lists the external runner may return
    room,             \* the length capturedQueries may reach
    rendered          \* formatQueries on its own: its arguments and its output

vars == <<query, logMigration, unlogMigration, created, tableName, originals,
          boundTarget, capturedQueries, run, obs, last, slots, builders, callPool,
          runnerLists, room, rendered>>

\* the part of the state that no step of an executor or of its callers changes
scope == <<slots, builders, callPool, runnerLists, room, rendered>>

(* ------------------------- function identities ------------------------- *)

\* the functions found on the handle and on the storage class before any
\* executor exists
RealQuery == [kind |-> "real", exec |-> NoExec]
RealLogMigration == [kind |-> "real-logMigration", exec |-> NoExec]
RealUnlogMigration == [kind |-> "real-unlogMigration", exec |-> NoExec]

\* sequelize.query.bind(sequelize) evaluated by createDryRun of executor e:
\* a new function object
BoundQuery(e) == [kind |-> "bound", exec |-> e]

\* the closures installed by setupQueryPatch / setupStoragePatch of executor e
PatchedQuery(e) == [kind |-> "patched", exec |-> e]
NoopLogMigration(e) == [kind |-> "noop-logMigration", exec |-> e]
NoopUnlogMigration(e) == [kind |-> "noop-unlogMigration", exec |-> e]

NoFunction == [kind |-> "undefined", exec |-> NoExec]

(* --------------------------- calling a function ------------------------ *)

\* what one call of sequelize.query did: which executors pushed the text to
\* their capturedQueries, which ran the classifier on it, whether the real
\* execution function was reached and with which arguments, and the value
\* the caller got back
DbResult == "rows from the database"
EmptyEffect == "[0, 0]"
EmptyResultSet == "[[], {}]"

RealCall(sql, options) ==
    [pushes |-> {}, classified |-> {}, real |-> TRUE,
     realArgs |-> <<sql, options>>, result |-> DbResult]

Inert(e, value) ==
    [pushes |-> {e}, classified |-> {e}, real |-> FALSE,
     realArgs |-> <<>>, result |-> value]

RECURSIVE callQuery(_, _, _)
RECURSIVE patchedQuery(_, _, _)

\* the patched function without its typeof test: every payload is classified
patchedQueryNoTypeof(e, sql, options) ==
    LET forwarded == callQuery(originals[e].query, sql, options)
    IN  IF shouldPassThrough(sql.value, tableName[e])
        THEN [forwarded EXCEPT !.classified = @ \cup {e}]
        ELSE IF options.type = "SELECT"
             THEN [forwarded EXCEPT !.pushes = @ \cup {e}, !.classified = @ \cup {e}]
             ELSE IF options.type \in {"INSERT", "UPDATE", "DELETE"}
             THEN Inert(e, EmptyEffect)
             ELSE Inert(e, EmptyResultSet)

\* the body of the function installed by setupQueryPatch of executor e
patchedQuery(e, sql, options) ==
    LET forwarded == callQuery(originals[e].query, sql, options)
    IN  IF sql.typeof # "string" THEN forwarded
        ELSE IF shouldPassThrough(sql.value, tableName[e])
        THEN [forwarded EXCEPT !.classified = @ \cup {e}]
        ELSE \* capturedQueries.push(sql)
             IF options.type = "SELECT"
             THEN [forwarded EXCEPT !.pushes = @ \cup {e}, !.classified = @ \cup {e}]
             ELSE IF options.type \in {"INSERT", "UPDATE", "DELETE"}
             THEN Inert(e, EmptyEffect)
             ELSE Inert(e, EmptyResultSet)

\* calling the function value fn with (sql, options)
callQuery(fn, sql, options) ==
    CASE fn.kind = "real" -> RealCall(sql, options)
      [] fn.kind = "bound" -> callQuery(boundTarget[fn.exec], sql, options)
      [] fn.kind = "patched" -> patchedQuery(fn.exec, sql, options)

\* capturedQueries after the pushes of one call
Pushed(eff, sql) ==
    [e \in Executors |->
        IF e \in eff.pushes THEN Append(capturedQueries[e], sql.value)
        ELSE capturedQueries[e]]

(* ------------------------ values of one run ---------------------------- *)

\* how the try block of up()/down() completed, and how the returned promise
\* settled: items holds the Migration Results (for down, the one result)
NoValue == [type |-> "none", items |-> <<>>]
ArrayValue(results) == [type |-> "array", items |-> results]
ObjectValue(result) == [type |-> "object", items |-> <<result>>]
\* an empty array where down() returns null
EmptyArrayForNull == [type |-> "array", items |-> <<>>]

NullValue == [type |-> "null", items |-> <<>>]

NoError == "none"
DiscoveryError == "Error: umzug could not read the executed migrations"
LoadError == "Error: Cannot find module"
ProcedureError == "Error: thrown by the migration procedure"
CallbackError == "Error: thrown by onMigration"

\* a completion names what is returned (results, result or null) or thrown
NoCompletion == [kind |-> "none", returns |-> "nothing", error |-> NoError]
Return(what) == [kind |-> "return", returns |-> what, error |-> NoError]
Throw(err) == [kind |-> "throw", returns |-> "nothing", error |-> err]

Pending == [kind |-> "pending", value |-> NoValue, error |-> NoError]

\* an up() that returns null when it has collected no result
ReturnedNullWhenEmpty(rec) ==
    CASE rec.completion.returns = "results" ->
             IF rec.results = <<>> THEN NullValue ELSE ArrayValue(rec.results)
      [] rec.completion.returns = "result" -> ObjectValue(rec.results[1])
      [] rec.completion.returns = "null" -> NullValue

\* the value of the returned variable when the function returns
Returned(rec) ==
    CASE rec.completion.returns = "results" -> ArrayValue(rec.results)
      [] rec.completion.returns = "result" -> ObjectValue(rec.results[1])
      [] rec.completion.returns = "null" -> NullValue

\* a settlement that wraps the error thrown inside the try block
SettledWrapped(rec) ==
    IF rec.completion.kind = "throw"
    THEN [kind |-> "rejected", value |-> NoValue, error |-> "Error: dry run failed"]
    ELSE [kind |-> "fulfilled", value |-> Returned(rec), error |-> NoError]

\* the promise of a run that has left its try block, as its caller sees it
Settled(rec) ==
    IF rec.completion.kind = "throw"
    THEN [kind |-> "rejected", value |-> NoValue, error |-> rec.completion.error]
    ELSE [kind |-> "fulfilled", value |-> Returned(rec), error |-> NoError]

IdleRun ==
    [pc |-> "idle", exec |-> NoExec, dir |-> "none", onMigration |-> FALSE,
     list |-> <<>>, i |-> 0, startIdx |-> 0, results |-> <<>>,
     completion |-> NoCompletion, promise |-> Pending]

NoObs ==
    [preRun |-> [query |-> NoFunction, logMigration |-> NoFunction,
                 unlogMigration |-> NoFunction],
     preLen |-> 0, restores |-> 0, lifecycle |-> <<>>, issued |-> <<>>,
     expected |-> <<>>, invoked |-> <<>>, callbacks |-> <<>>,
     raised |-> NoError, overlapped |-> FALSE]

NoCall ==
    [op |-> "none", caller |-> App, during |-> {}, fn |-> NoFunction,
     sql |-> StringPayload(<<>>), options |-> [type |-> NoType],
     pushes |-> {}, classified |-> {}, real |-> FALSE, realArgs |-> <<>>,
     result |-> "none"]

\* formatQueries has not been applied on its own
NoRender == [name |-> <<>>, direction |-> "none", queries |-> <<>>, output |-> <<>>]

\* the slots whose run is between install and restore
Installed == {r \in slots : run[r].pc \notin {"idle", "done"}}

\* the lists the runner may return, in its order: of the two migrations,
\* the pending ones are the last ones, the executed ones the first ones
MigrationLists ==
    {<<>>} \cup {<<n>> : n \in MigrationNames}
           \cup {<<<<"0001-create-users.js">>, <<"0002-add-email.js">>>>}

PendingLists == MigrationLists \ {<<<<"0001-create-users.js">>>>}
ExecutedLists == MigrationLists \ {<<<<"0002-add-email.js">>>>}

(* ------------------------------- Init ---------------------------------- *)

Init ==
    /\ query = RealQuery
    /\ logMigration = RealLogMigration
    /\ unlogMigration = RealUnlogMigration
    /\ created = [e \in Executors |-> FALSE]
    /\ tableName = [e \in Executors |-> DefaultTableName]
    /\ originals = [e \in Executors |->
                       [query |-> NoFunction, logMigration |-> NoFunction,
                        unlogMigration |-> NoFunction]]
    /\ boundTarget = [e \in Executors |-> NoFunction]
    /\ capturedQueries = [e \in Executors |-> <<>>]
    /\ run = [r \in Slots |-> IdleRun]
    /\ obs = [r \in Slots |-> NoObs]
    /\ last = NoCall
    /\ slots = {"r1"}
    /\ builders = {"e1"}
    /\ callPool = MigrationCalls
    /\ runnerLists = [pending |-> PendingLists, executed |-> ExecutedLists]
    /\ room = MaxBuffer
    /\ rendered = NoRender

(* ---------------------------- createDryRun ----------------------------- *)

\* createDryRun(options): options.sequelize and options.migrationsPath are
\* given or not; tableName defaults to "SequelizeMeta". The call in progress
\* keeps the options it was made with and what it returned or threw
CreateOptions == [sequelize : BOOLEAN, migrationsPath : BOOLEAN, tableName : TableNameOptions]

\* a constructor that installs its patches before it looks at its options
createDryRunPatchesFirst(e, options) ==
    /\ e \in builders
    /\ last = NoCall
    /\ ~created[e]
    /\ Installed = {}
    /\ query' = PatchedQuery(e)
    /\ logMigration' = NoopLogMigration(e)
    /\ unlogMigration' = NoopUnlogMigration(e)
    /\ IF ~options.sequelize \/ ~options.migrationsPath
       THEN /\ last' = [NoCall EXCEPT !.op = "createDryRun", !.options = options,
                                      !.result = IF ~options.sequelize
                                                 THEN "Error: sequelize instance is required"
                                                 ELSE "Error: migrationsPath is required"]
            /\ UNCHANGED <<created, tableName, originals, boundTarget, capturedQueries>>
       ELSE /\ originals' = [originals EXCEPT ![e] =
                                [query |-> BoundQuery(e),
                                 logMigration |-> logMigration,
                                 unlogMigration |-> unlogMigration]]
            /\ boundTarget' = [boundTarget EXCEPT ![e] = query]
            /\ tableName' = [tableName EXCEPT ![e] =
                                IF options.tableName.given THEN options.tableName.value
                                ELSE DefaultTableName]
            /\ capturedQueries' = [capturedQueries EXCEPT ![e] = <<>>]
            /\ created' = [created EXCEPT ![e] = TRUE]
            /\ last' = [NoCall EXCEPT !.op = "createDryRun", !.options = options,
                                      !.result = "executor"]
    /\ UNCHANGED <<run, obs, scope>>

createDryRun(e, options) ==
    /\ e \in builders
    /\ last = NoCall
    /\ ~created[e]
    /\ Installed = {}
    /\ IF ~options.sequelize
       THEN /\ last' = [NoCall EXCEPT !.op = "createDryRun", !.options = options,
                                      !.result = "Error: sequelize instance is required"]
            /\ UNCHANGED <<created, tableName, originals, boundTarget, capturedQueries>>
       ELSE IF ~options.migrationsPath
       THEN /\ last' = [NoCall EXCEPT !.op = "createDryRun", !.options = options,
                                      !.result = "Error: migrationsPath is required"]
            /\ UNCHANGED <<created, tableName, originals, boundTarget, capturedQueries>>
       ELSE /\ originals' = [originals EXCEPT ![e] =
                                [query |-> BoundQuery(e),
                                 logMigration |-> logMigration,
                                 unlogMigration |-> unlogMigration]]
            /\ boundTarget' = [boundTarget EXCEPT ![e] = query]
            /\ tableName' = [tableName EXCEPT ![e] =
                                IF options.tableName.given THEN options.tableName.value
                                ELSE DefaultTableName]
            /\ capturedQueries' = [capturedQueries EXCEPT ![e] = <<>>]
            /\ created' = [created EXCEPT ![e] = TRUE]
            /\ last' = [NoCall EXCEPT !.op = "createDryRun", !.options = options,
                                      !.result = "executor"]
    /\ UNCHANGED <<query, logMigration, unlogMigration, run, obs, scope>>

(* ------------------- calls of the patched entry points ----------------- *)

\* a caller is the host application while no run is installed, or the code
\* running inside a run: the runner during discovery, a migration procedure
MayCall(caller) ==
    /\ last = NoCall
    /\ \/ caller = App /\ Installed = {}
       \/ caller \in slots /\ run[caller].pc \in {"discovering", "running"}

\* a push leaves room for the synthetic statement of the running procedure
HasRoom(eff) == \A e \in eff.pushes : Len(capturedQueries[e]) + 1 < room

\* the observer's record after a call by caller that had the effect eff
Observed(caller, eff, text) ==
    IF caller \in slots /\ eff.pushes # {}
    THEN [obs EXCEPT ![caller].issued =
                         IF run[caller].pc = "running" /\ run[caller].exec \in eff.pushes
                         THEN Append(@, text) ELSE @]
    ELSE obs

\* sequelize.query(sql, options) called by caller
queryCall(caller, sql, options) ==
    /\ MayCall(caller)
    /\ <<sql, options>> \in callPool
    /\ LET eff == callQuery(query, sql, options)
       IN  /\ HasRoom(eff)
           /\ capturedQueries' = Pushed(eff, sql)
           /\ obs' = Observed(caller, eff, sql.value)
           /\ last' = [op |-> "query", caller |-> caller, during |-> Installed,
                       fn |-> query, sql |-> sql, options |-> options,
                       pushes |-> eff.pushes, classified |-> eff.classified,
                       real |-> eff.real, realArgs |-> eff.realArgs,
                       result |-> eff.result]
    /\ UNCHANGED <<query, logMigration, unlogMigration, created, tableName, originals,
                   boundTarget, run, scope>>

\* the synthetic bookkeeping statements (BQ stands for the backquote
\* character, which a TLA+ string cannot hold)
BQ == "(backquote)"

insertRecord(table, name) ==
    <<"INSERT INTO ", BQ>> \o table \o <<BQ, " (", BQ, "name", BQ, ") VALUES ('">>
        \o name \o <<"');">>

deleteRecord(table, name) ==
    <<"DELETE FROM ", BQ>> \o table \o <<BQ, " WHERE ", BQ, "name", BQ, " = '">>
        \o name \o <<"';">>

\* the function installed as logMigration / unlogMigration, called with a
\* migration name: the closures of setupStoragePatch do nothing; the storage
\* class's own methods write / delete the tracking row through sequelize.query
hookEffect(fn, sql, options) ==
    IF fn.kind \in {"noop-logMigration", "noop-unlogMigration"}
    THEN [pushes |-> {}, classified |-> {}, real |-> FALSE, realArgs |-> <<>>,
          result |-> "undefined"]
    ELSE callQuery(query, sql, options)

hookCall(caller, which, name) ==
    /\ MayCall(caller)
    /\ LET fn == IF which = "logMigration" THEN logMigration ELSE unlogMigration
           sql == StringPayload(IF which = "logMigration"
                                THEN insertRecord(DefaultTableName, name)
                                ELSE deleteRecord(DefaultTableName, name))
           options == [type |-> IF which = "logMigration" THEN "INSERT" ELSE "DELETE"]
           eff == hookEffect(fn, sql, options)
       IN  /\ HasRoom(eff)
           /\ capturedQueries' = Pushed(eff, sql)
           /\ obs' = Observed(caller, eff, sql.value)
           /\ last' = [op |-> which, caller |-> caller, during |-> Installed,
                       fn |-> fn, sql |-> sql, options |-> options,
                       pushes |-> eff.pushes, classified |-> eff.classified,
                       real |-> eff.real, realArgs |-> eff.realArgs,
                       result |-> eff.result]
    /\ UNCHANGED <<query, logMigration, unlogMigration, created, tableName, originals,
                   boundTarget, run, scope>>

\* the caller of the latest call receives its result
callReturns ==
    /\ last # NoCall
    /\ last' = NoCall
    /\ UNCHANGED <<query, logMigration, unlogMigration, created, tableName, originals,
                   boundTarget, capturedQueries, run, obs, scope>>

(* ------------------------- interception adapter ------------------------ *)

\* a storage patch that forgets unlogMigration
setupStoragePatchLogOnly(e) ==
    /\ logMigration' = NoopLogMigration(e)
    /\ unlogMigration' = unlogMigration

setupStoragePatch(e) ==
    /\ logMigration' = NoopLogMigration(e)
    /\ unlogMigration' = NoopUnlogMigration(e)

\* a query patch that leaves sequelize.query as it is
setupQueryPatchKeepsQuery(e) ==
    query' = query

setupQueryPatch(e) ==
    query' = PatchedQuery(e)

restore(e) ==
    /\ query' = originals[e].query
    /\ logMigration' = originals[e].logMigration
    /\ unlogMigration' = originals[e].unlogMigration

(* ----------------------------- orchestrator ---------------------------- *)

\* restore() called at the end of the try block instead of in a finally
\* block: a throw settles the promise without it
leaveTryNoFinally(rec, completion) ==
    IF completion.kind = "throw"
    THEN [rec EXCEPT !.pc = "done", !.completion = completion,
                     !.promise = Settled([rec EXCEPT !.completion = completion])]
    ELSE [rec EXCEPT !.pc = "finally", !.completion = completion]

\* leaving the try block with a completion: control goes to the finally block
leaveTry(rec, completion) ==
    [rec EXCEPT !.pc = "finally", !.completion = completion]

\* a startIdx that is always the beginning of the array
snapshotZero(e) == 0

\* capturedQueries.length taken as startIdx
snapshot(e) == Len(capturedQueries[e])

\* capturedQueries.slice(startIdx) on the array buf
slice(buf, startIdx) == SubSeq(buf, startIdx + 1, Len(buf))

\* the position of executed[0]
firstMigration(executed) == 1

\* the position of executed[executed.length - 1]
lastMigration(executed) == Len(executed)

\* entry of up()/down() up to and including setupStoragePatch and
\* setupQueryPatch
enter(r, e, dir, onMigration) ==
    /\ r \in slots
    /\ last = NoCall
    /\ run[r].pc \in {"idle", "done"}
    /\ created[e]
    /\ run' = [run EXCEPT ![r] =
                  [IdleRun EXCEPT !.pc = "installed", !.exec = e, !.dir = dir,
                                  !.onMigration = onMigration]]
    /\ obs' = [x \in Slots |->
                  IF x = r
                  THEN [NoObs EXCEPT !.preRun = [query |-> query,
                                                 logMigration |-> logMigration,
                                                 unlogMigration |-> unlogMigration],
                                     !.preLen = Len(capturedQueries[e]),
                                     !.lifecycle = <<"Installed">>,
                                     !.overlapped = (Installed # {})]
                  ELSE IF x \in Installed
                  THEN [obs[x] EXCEPT !.overlapped = TRUE]
                  ELSE obs[x]]
    /\ setupStoragePatch(e)
    /\ setupQueryPatch(e)
    /\ UNCHANGED <<last, created, tableName, originals, boundTarget, capturedQueries, scope>>

up(r, e, onMigration) == enter(r, e, "up", onMigration)

down(r, e, onMigration) == enter(r, e, "down", onMigration)

\* new Umzug(...) and the call of umzug.pending() / umzug.executed()
askRunner(r) ==
    /\ r \in slots
    /\ last = NoCall
    /\ run[r].pc = "installed"
    /\ run' = [run EXCEPT ![r].pc = "discovering"]
    /\ obs' = [obs EXCEPT ![r].lifecycle = Append(@, "Discovering")]
    /\ UNCHANGED <<last, query, logMigration, unlogMigration, created, tableName, originals,
                   boundTarget, capturedQueries, scope>>

\* await umzug.pending() resolves with the list pending
upPendingReturns(r, pending) ==
    /\ r \in slots
    /\ last = NoCall
    /\ run[r].pc = "discovering"
    /\ run[r].dir = "up"
    /\ pending \in runnerLists.pending
    /\ IF Len(pending) = 0
       THEN /\ run' = [run EXCEPT ![r] = leaveTry(@, Return("results"))]
            /\ obs' = [obs EXCEPT ![r].lifecycle = Append(@, "NoPending")]
       ELSE /\ run' = [run EXCEPT ![r].list = pending, ![r].i = 1, ![r].pc = "loop"]
            /\ obs' = obs
    /\ UNCHANGED <<last, query, logMigration, unlogMigration, created, tableName, originals,
                   boundTarget, capturedQueries, scope>>

\* await umzug.executed() resolves with the list executed
downExecutedReturns(r, executed) ==
    /\ r \in slots
    /\ last = NoCall
    /\ run[r].pc = "discovering"
    /\ run[r].dir = "down"
    /\ executed \in runnerLists.executed
    /\ IF Len(executed) = 0
       THEN /\ run' = [run EXCEPT ![r] = leaveTry(@, Return("null"))]
            /\ obs' = [obs EXCEPT ![r].lifecycle = Append(@, "NoPending")]
       ELSE /\ run' = [run EXCEPT ![r].list = executed,
                                  ![r].i = lastMigration(executed),
                                  ![r].pc = "loop"]
            /\ obs' = obs
    /\ UNCHANGED <<last, query, logMigration, unlogMigration, created, tableName, originals,
                   boundTarget, capturedQueries, scope>>

\* await umzug.pending() / umzug.executed() rejects
discoveryThrows(r) ==
    /\ r \in slots
    /\ last = NoCall
    /\ run[r].pc = "discovering"
    /\ run' = [run EXCEPT ![r] = leaveTry(@, Throw(DiscoveryError))]
    /\ obs' = [obs EXCEPT ![r].raised = DiscoveryError]
    /\ UNCHANGED <<last, query, logMigration, unlogMigration, created, tableName, originals,
                   boundTarget, capturedQueries, scope>>

\* startIdx is taken, then require(migrationPath) throws
requireThrows(r) ==
    /\ r \in slots
    /\ last = NoCall
    /\ run[r].pc = "loop"
    /\ run' = [run EXCEPT ![r] =
                  leaveTry([@ EXCEPT !.startIdx = snapshot(run[r].exec)], Throw(LoadError))]
    /\ obs' = [obs EXCEPT ![r].raised = LoadError,
                          ![r].lifecycle = Append(@, "PerMigration")]
    /\ UNCHANGED <<last, query, logMigration, unlogMigration, created, tableName, originals,
                   boundTarget, capturedQueries, scope>>

\* startIdx is taken, the module is loaded and its up / down procedure called
invokeProcedure(r) ==
    /\ r \in slots
    /\ last = NoCall
    /\ run[r].pc = "loop"
    /\ Len(capturedQueries[run[r].exec]) < room
    /\ run' = [run EXCEPT ![r].startIdx = snapshot(run[r].exec), ![r].pc = "running"]
    /\ obs' = [obs EXCEPT ![r].issued = <<>>,
                          ![r].invoked = Append(@, [name |-> run[r].list[run[r].i],
                                                    procedure |-> run[r].dir]),
                          ![r].lifecycle = Append(@, "PerMigration")]
    /\ UNCHANGED <<last, query, logMigration, unlogMigration, created, tableName, originals,
                   boundTarget, capturedQueries, scope>>

\* a procedure whose rejection is noticed only after the synthetic statement
\* has been pushed
procedureThrowsAfterLog(r) ==
    /\ r \in slots
    /\ last = NoCall
    /\ run[r].pc = "running"
    /\ run' = [run EXCEPT ![r] = leaveTry(@, Throw(ProcedureError))]
    /\ obs' = [obs EXCEPT ![r].raised = ProcedureError]
    /\ capturedQueries' =
           [capturedQueries EXCEPT ![run[r].exec] =
               Append(@, IF run[r].dir = "up"
                         THEN insertRecord(tableName[run[r].exec], run[r].list[run[r].i])
                         ELSE deleteRecord(tableName[run[r].exec], run[r].list[run[r].i]))]
    /\ UNCHANGED <<last, query, logMigration, unlogMigration, created, tableName, originals,
                   boundTarget, scope>>

\* await mod.up(...) / mod.down(...) rejects
procedureThrows(r) ==
    /\ r \in slots
    /\ last = NoCall
    /\ run[r].pc = "running"
    /\ run' = [run EXCEPT ![r] = leaveTry(@, Throw(ProcedureError))]
    /\ obs' = [obs EXCEPT ![r].raised = ProcedureError]
    /\ UNCHANGED <<last, query, logMigration, unlogMigration, created, tableName, originals,
                   boundTarget, capturedQueries, scope>>

\* the Migration Result built after a procedure has returned
MigrationResult(name, direction, queries) ==
    [name |-> name, direction |-> direction, sql |-> queries,
     output |-> formatQueries(name, <<direction>>, queries)]

\* an up() that calls onMigration only for the last pending migration
upProcedureReturnsCallbackAtEnd(r, callbackThrows) ==
    /\ r \in slots
    /\ last = NoCall
    /\ run[r].pc = "running"
    /\ run[r].dir = "up"
    /\ callbackThrows => run[r].onMigration
    /\ LET e == run[r].exec
           name == run[r].list[run[r].i]
           buf == Append(capturedQueries[e], insertRecord(tableName[e], name))
           queries == slice(buf, run[r].startIdx)
           results == Append(run[r].results, MigrationResult(name, "up", queries))
           collected == [run[r] EXCEPT !.results = results]
       IN  /\ capturedQueries' = [capturedQueries EXCEPT ![e] = buf]
           /\ run' = [run EXCEPT ![r] =
                         IF callbackThrows
                         THEN leaveTry(collected, Throw(CallbackError))
                         ELSE IF run[r].i < Len(run[r].list)
                         THEN [collected EXCEPT !.i = @ + 1, !.pc = "loop"]
                         ELSE leaveTry(collected, Return("results"))]
           /\ obs' = [obs EXCEPT
                         ![r].expected = Append(@, obs[r].issued),
                         ![r].callbacks =
                             IF run[r].onMigration /\ run[r].i = Len(run[r].list)
                             THEN Append(@, [name |-> name, queries |-> queries])
                             ELSE @,
                         ![r].raised = IF callbackThrows THEN CallbackError ELSE @]
    /\ UNCHANGED <<last, query, logMigration, unlogMigration, created, tableName, originals,
                   boundTarget, scope>>

\* await mod.up(...) resolves: the synthetic insert is pushed, the result is
\* collected, onMigration (if given) is called and may throw; then the loop
\* continues or ends
upProcedureReturns(r, callbackThrows) ==
    /\ r \in slots
    /\ last = NoCall
    /\ run[r].pc = "running"
    /\ run[r].dir = "up"
    /\ callbackThrows => run[r].onMigration
    /\ LET e == run[r].exec
           name == run[r].list[run[r].i]
           buf == Append(capturedQueries[e], insertRecord(tableName[e], name))
           queries == slice(buf, run[r].startIdx)
           results == Append(run[r].results, MigrationResult(name, "up", queries))
           collected == [run[r] EXCEPT !.results = results]
       IN  /\ capturedQueries' = [capturedQueries EXCEPT ![e] = buf]
           /\ run' = [run EXCEPT ![r] =
                         IF callbackThrows
                         THEN leaveTry(collected, Throw(CallbackError))
                         ELSE IF run[r].i < Len(run[r].list)
                         THEN [collected EXCEPT !.i = @ + 1, !.pc = "loop"]
                         ELSE leaveTry(collected, Return("results"))]
           /\ obs' = [obs EXCEPT
                         ![r].expected = Append(@, obs[r].issued),
                         ![r].callbacks =
                             IF run[r].onMigration
                             THEN Append(@, [name |-> name, queries |-> queries])
                             ELSE @,
                         ![r].raised = IF callbackThrows THEN CallbackError ELSE @]
    /\ UNCHANGED <<last, query, logMigration, unlogMigration, created, tableName, originals,
                   boundTarget, scope>>

\* await mod.down(...) resolves: the synthetic delete is pushed, the result
\* is built, onMigration (if given) is called and may throw
downProcedureReturns(r, callbackThrows) ==
    /\ r \in slots
    /\ last = NoCall
    /\ run[r].pc = "running"
    /\ run[r].dir = "down"
    /\ callbackThrows => run[r].onMigration
    /\ LET e == run[r].exec
           name == run[r].list[run[r].i]
           buf == Append(capturedQueries[e], deleteRecord(tableName[e], name))
           queries == slice(buf, run[r].startIdx)
           result == MigrationResult(name, "down", queries)
           collected == [run[r] EXCEPT !.results = <<result>>]
       IN  /\ capturedQueries' = [capturedQueries EXCEPT ![e] = buf]
           /\ run' = [run EXCEPT ![r] =
                         IF callbackThrows
                         THEN leaveTry(collected, Throw(CallbackError))
                         ELSE leaveTry(collected, Return("result"))]
           /\ obs' = [obs EXCEPT
                         ![r].expected = Append(@, obs[r].issued),
                         ![r].callbacks =
                             IF run[r].onMigration
                             THEN Append(@, [name |-> name, queries |-> queries])
                             ELSE @,
                         ![r].raised = IF callbackThrows THEN CallbackError ELSE @]
    /\ UNCHANGED <<last, query, logMigration, unlogMigration, created, tableName, originals,
                   boundTarget, scope>>

\* the finally block runs restore(); then the promise settles with the
\* completion of the try block
finallyRestore(r) ==
    /\ r \in slots
    /\ last = NoCall
    /\ run[r].pc = "finally"
    /\ restore(run[r].exec)
    /\ run' = [run EXCEPT ![r].pc = "done", ![r].promise = Settled(run[r])]
    /\ obs' = [obs EXCEPT ![r].restores = @ + 1,
                          ![r].lifecycle = Append(@, "Restored")]
    /\ UNCHANGED <<last, created, tableName, originals, boundTarget, capturedQueries, scope>>

(* ------------------------------ behaviours ----------------------------- *)

Next ==
    \/ \E e \in Executors, options \in CreateOptions : createDryRun(e, options)
    \/ \E r \in Slots, e \in Executors, onMigration \in BOOLEAN : up(r, e, onMigration)
    \/ \E r \in Slots, e \in Executors, onMigration \in BOOLEAN : down(r, e, onMigration)
    \/ \E r \in Slots : askRunner(r)
    \/ \E r \in Slots, pending \in MigrationLists : upPendingReturns(r, pending)
    \/ \E r \in Slots, executed \in MigrationLists : downExecutedReturns(r, executed)
    \/ \E r \in Slots : discoveryThrows(r)
    \/ \E r \in Slots : requireThrows(r)
    \/ \E r \in Slots : invokeProcedure(r)
    \/ \E r \in Slots : procedureThrows(r)
    \/ \E r \in Slots, callbackThrows \in BOOLEAN : upProcedureReturns(r, callbackThrows)
    \/ \E r \in Slots, callbackThrows \in BOOLEAN : downProcedureReturns(r, callbackThrows)
    \/ \E r \in Slots : finallyRestore(r)
    \/ \E caller \in Slots \cup {App}, sql \in Payloads, options \in OptionsSet :
           queryCall(caller, sql, options)
    \/ callReturns
    \/ \E caller \in Slots \cup {App}, which \in {"logMigration", "unlogMigration"} :
           hookCall(caller, which, <<"0001-create-users.js">>)

Spec == Init /\ [][Next]_vars

\* the classifier and the patched entry point on every call of Calls, in
\* behaviours of one executor
InitCalls ==
    /\ query = RealQuery
    /\ logMigration = RealLogMigration
    /\ unlogMigration = RealUnlogMigration
    /\ created = [e \in Executors |-> FALSE]
    /\ tableName = [e \in Executors |-> DefaultTableName]
    /\ originals = [e \in Executors |->
                       [query |-> NoFunction, logMigration |-> NoFunction,
                        unlogMigration |-> NoFunction]]
    /\ boundTarget = [e \in Executors |-> NoFunction]
    /\ capturedQueries = [e \in Executors |-> <<>>]
    /\ run = [r \in Slots |-> IdleRun]
    /\ obs = [r \in Slots |-> NoObs]
    /\ last = NoCall
    /\ slots = {"r1"}
    /\ builders = {"e1"}
    /\ callPool = Calls
    /\ runnerLists = [pending |-> {<<>>, <<<<"0002-add-email.js">>>>},
                       executed |-> {<<>>, <<<<"0001-create-users.js">>>>}]
    /\ room = CallsBuffer
    /\ rendered = NoRender

SpecCalls == InitCalls /\ [][Next]_vars

\* two callers, each running up() on one of two executors built on the same
\* handle (possibly the same executor), their runs interleaved at every await
InitOverlap ==
    /\ query = RealQuery
    /\ logMigration = RealLogMigration
    /\ unlogMigration = RealUnlogMigration
    /\ created = [e \in Executors |-> FALSE]
    /\ tableName = [e \in Executors |-> DefaultTableName]
    /\ originals = [e \in Executors |->
                       [query |-> NoFunction, logMigration |-> NoFunction,
                        unlogMigration |-> NoFunction]]
    /\ boundTarget = [e \in Executors |-> NoFunction]
    /\ capturedQueries = [e \in Executors |-> <<>>]
    /\ run = [r \in Slots |-> IdleRun]
    /\ obs = [r \in Slots |-> NoObs]
    /\ last = NoCall
    /\ slots = {"r1", "r2"}
    /\ builders = {"e1", "e2"}
    /\ callPool = {<<StringPayload(<<"CREATE TABLE ", "users", " (id INTEGER)">>),
                     [type |-> NoType]>>}
    /\ runnerLists = [pending |-> {<<<<"0002-add-email.js">>>>}, executed |-> {}]
    /\ room = OverlapBuffer
    /\ rendered = NoRender

NextOverlap ==
    \/ \E e \in Executors :
           createDryRun(e, [sequelize |-> TRUE, migrationsPath |-> TRUE,
                            tableName |-> [given |-> FALSE, value |-> <<>>]])
    \/ up("r1", "e1", FALSE)
    \/ \E e \in Executors : up("r2", e, FALSE)
    \/ \E r \in Slots : askRunner(r)
    \/ \E r \in Slots, pending \in MigrationLists : upPendingReturns(r, pending)
    \/ \E r \in Slots : invokeProcedure(r)
    \/ \E r \in Slots : upProcedureReturns(r, FALSE)
    \/ \E r \in Slots : finallyRestore(r)
    \/ \E caller \in Slots, sql \in Payloads, options \in OptionsSet :
           queryCall(caller, sql, options)
    \/ callReturns

SpecOverlap == InitOverlap /\ [][NextOverlap]_vars

\* formatQueries on its own: the arguments are drawn, then it is applied
FormatTexts ==
    { <<"CREATE TABLE ", "users", " (id INTEGER)">>,
      <<"INSERT INTO ", "SequelizeMeta", " (name) VALUES ('x')">>,
      <<"DROP TABLE ", "users">> }

StatementLists == UNION {[1..n -> FormatTexts] : n \in 0..MaxStatements}

InitFormat ==
    /\ query = RealQuery
    /\ logMigration = RealLogMigration
    /\ unlogMigration = RealUnlogMigration
    /\ created = [e \in Executors |-> FALSE]
    /\ tableName = [e \in Executors |-> DefaultTableName]
    /\ originals = [e \in Executors |->
                       [query |-> NoFunction, logMigration |-> NoFunction,
                        unlogMigration |-> NoFunction]]
    /\ boundTarget = [e \in Executors |-> NoFunction]
    /\ capturedQueries = [e \in Executors |-> <<>>]
    /\ run = [r \in Slots |-> IdleRun]
    /\ obs = [r \in Slots |-> NoObs]
    /\ last = NoCall
    /\ slots = {}
    /\ builders = {}
    /\ callPool = {}
    /\ runnerLists = [pending |-> {}, executed |-> {}]
    /\ room = 0
    /\ rendered \in [name : MigrationNames, direction : {"up", "down"},
                      queries : StatementLists, output : {<<>>}]

format ==
    /\ rendered.direction # "none"
    /\ rendered.output = <<>>
    /\ rendered' = [rendered EXCEPT !.output =
                        formatQueries(rendered.name, <<rendered.direction>>, rendered.queries)]
    /\ UNCHANGED <<query, logMigration, unlogMigration, created, tableName, originals,
                   boundTarget, capturedQueries, run, obs, last, slots, builders,
                   callPool, runnerLists, room>>

NextFormat == format

SpecFormat == InitFormat /\ [][NextFormat]_vars

(* ---------------------------- vocabulary ------------------------------- *)

\* the call in progress is a call of the function installed by setupQueryPatch
\* made while a run is between install and restore
PatchedCall ==
    /\ last.op = "query"
    /\ last.fn.kind = "patched"
    /\ last.during # {}

\* s begins, in any letter case, with a read-only introspection keyword
BeginsWithKeyword(s) ==
    \E k \in {<<"pragma">>, <<"show">>, <<"describe">>, <<"select">>} :
        startsWith(toLowerCase(s), k)

\* the lowercase form of s is a select mentioning the lowercased table name t
SelectAgainst(s, t) ==
    /\ startsWith(toLowerCase(s), <<"select">>)
    /\ includes(toLowerCase(s), toLowerCase(t))

\* the three references are the closures installed by executor e
Patched(e) ==
    /\ query = PatchedQuery(e)
    /\ logMigration = NoopLogMigration(e)
    /\ unlogMigration = NoopUnlogMigration(e)

\* Installed, Discovering, then NoPending or PerMigration any number of
\* times, then Restored
LifecycleShape(l) ==
    /\ Len(l) >= 3
    /\ l[1] = "Installed"
    /\ l[2] = "Discovering"
    /\ l[Len(l)] = "Restored"
    /\ \/ SubSeq(l, 3, Len(l) - 1) = <<"NoPending">>
       \/ \A k \in 3..(Len(l) - 1) : l[k] = "PerMigration"

(* -------------------------------- claims ------------------------------- *)

\* C1: during a run, every string statement the classifier does not pass
\* through is appended to the capture buffer and is not forwarded to the
\* real execution function, whatever options.type is.
C1_CapturedNeverForwarded ==
    (/\ PatchedCall
     /\ last.sql.typeof = "string"
     /\ ~shouldPassThrough(last.sql.value, tableName[last.fn.exec]))
    => /\ last.fn.exec \in last.pushes
       /\ ~last.real

\* C2: once a run of up()/down() has settled, sequelize.query and the two
\* storage hooks are the very references they were just before the run.
C2_RestoredToPreRunIdentity ==
    \A r \in slots :
        run[r].pc = "done"
        => /\ query = obs[r].preRun.query
           /\ logMigration = obs[r].preRun.logMigration
           /\ unlogMigration = obs[r].preRun.unlogMigration

\* C3: a run goes Installed, Discovering, (NoPending | PerMigration x N),
\* Restored: the three references are patched before and while the runner is
\* asked, restore() has not run before the run leaves its try block, and has
\* run exactly once, as the last step, when the run has settled - whichever
\* way it left.
C3_Lifecycle ==
    \A r \in slots :
        /\ run[r].pc \in {"installed", "discovering"} => Patched(run[r].exec)
        /\ run[r].pc \in {"installed", "discovering", "loop", "running", "finally"}
           => /\ obs[r].restores = 0
              /\ obs[r].lifecycle[1] = "Installed"
        /\ run[r].pc \in {"discovering", "loop", "running", "finally"}
           => obs[r].lifecycle[2] = "Discovering"
        /\ run[r].pc = "done"
           => /\ obs[r].restores = 1
              /\ LifecycleShape(obs[r].lifecycle)

\* a run that failed in its second migration's procedure has settled
C3_Witness ==
    \E r \in slots :
        /\ run[r].pc = "done"
        /\ obs[r].raised = ProcedureError
        /\ Len(run[r].results) = 1
        /\ obs[r].restores = 1

\* C4: the statement list of each Migration Result of up() is the statements
\* captured while that migration's up-procedure ran, in the order issued,
\* followed by the one synthetic insert for that migration, and nothing else.
C4_UpResultStatements ==
    \A r \in slots :
        run[r].dir = "up"
        => \A k \in 1..Len(run[r].results) :
               /\ run[r].results[k].name = run[r].list[k]
               /\ run[r].results[k].sql =
                      obs[r].expected[k]
                      \o << <<"INSERT INTO ", BQ>> \o tableName[run[r].exec]
                            \o <<BQ, " (", BQ, "name", BQ, ") VALUES ('">>
                            \o run[r].list[k] \o <<"');">> >>

\* an up() on an executor whose buffer already held statements has produced
\* the result of its second migration, which issued a captured statement
C4_Witness ==
    \E r \in slots :
        /\ run[r].dir = "up"
        /\ obs[r].preLen > 0
        /\ Len(run[r].results) = 1
        /\ Len(run[r].results[1].sql) = 2

\* C5: down() with a non-empty executed list invokes only the down-procedure
\* of the last executed migration, once; its result has that name, direction
\* "down", and ends with the synthetic delete after the statements the
\* procedure produced.
C5_DownLastExecuted ==
    \A r \in slots :
        run[r].dir = "down"
        => /\ Len(obs[r].invoked) <= 1
           /\ \A k \in 1..Len(obs[r].invoked) :
                  obs[r].invoked[k] =
                      [name |-> run[r].list[Len(run[r].list)], procedure |-> "down"]
           /\ (run[r].pc = "done" /\ run[r].promise.value.type = "object")
              => /\ Len(run[r].promise.value.items) = 1
                 /\ run[r].promise.value.items[1].name = run[r].list[Len(run[r].list)]
                 /\ run[r].promise.value.items[1].direction = "down"
                 /\ run[r].promise.value.items[1].sql =
                        obs[r].expected[1]
                        \o << <<"DELETE FROM ", BQ>> \o tableName[run[r].exec]
                              \o <<BQ, " WHERE ", BQ, "name", BQ, " = '">>
                              \o run[r].list[Len(run[r].list)] \o <<"';">> >>
           /\ (run[r].pc = "done" /\ Len(run[r].list) > 0 /\ obs[r].raised = NoError)
              => run[r].promise.value.type = "object"

\* a down() over two executed migrations has returned its result, which
\* holds a captured statement and the synthetic delete
C5_Witness ==
    \E r \in slots :
        /\ run[r].dir = "down"
        /\ run[r].pc = "done"
        /\ Len(run[r].list) = 2
        /\ run[r].promise.value.type = "object"
        /\ Len(run[r].promise.value.items[1].sql) = 2

\* C6: a string that does not begin with pragma, show, describe or select and
\* is not a select against the tracking table is captured.
C6_CaptureDirection ==
    (/\ PatchedCall
     /\ last.sql.typeof = "string"
     /\ ~BeginsWithKeyword(last.sql.value)
     /\ ~SelectAgainst(last.sql.value, tableName[last.fn.exec]))
    => last.fn.exec \in last.pushes

\* C7: a string that begins, in any letter case, with an introspection
\* keyword, or whose lowercase form is a select mentioning the lowercased
\* table name, goes to the original execution function with its arguments,
\* whatever the table name; a statement the classifier passes through is not
\* appended to the buffer.
C7_PassThrough ==
    (PatchedCall /\ last.sql.typeof = "string")
    => /\ (\/ BeginsWithKeyword(last.sql.value)
           \/ SelectAgainst(last.sql.value, tableName[last.fn.exec]))
          => /\ last.real
             /\ last.realArgs = <<last.sql, last.options>>
             /\ last.pushes = {}
       /\ shouldPassThrough(last.sql.value, tableName[last.fn.exec])
          => last.pushes = {}

\* DESCRIBE is passed through by an executor whose table is not the default
C7_Witness ==
    /\ PatchedCall
    /\ last.sql = StringPayload(<<"DESCRIBE", " users">>)
    /\ tableName[last.fn.exec] = <<"Migrations">>
    /\ last.real

\* C8: during a run, a call whose payload is not a string goes to the
\* original execution function with the same payload and options, is not
\* classified, and pushes nothing to the buffer.
C8_NonStringForwarded ==
    (PatchedCall /\ last.sql.typeof # "string")
    => /\ last.real
       /\ last.realArgs = <<last.sql, last.options>>
       /\ last.classified = {}
       /\ last.pushes = {}

\* a query object was handed to sequelize.query while a procedure was running
C8_Witness ==
    /\ PatchedCall
    /\ last.sql = QueryObject
    /\ \E r \in last.during : run[r].pc = "running"
    /\ last.real

\* C9: from install until restore the two storage hooks are the no-op
\* closures: calling them reaches no real execution function and pushes
\* nothing to the buffer.
C9_HooksAreNoops ==
    /\ \A r \in slots :
           run[r].pc \in {"installed", "discovering", "loop", "running", "finally"}
           => /\ logMigration.kind = "noop-logMigration"
              /\ unlogMigration.kind = "noop-unlogMigration"
    /\ (last.op \in {"logMigration", "unlogMigration"} /\ last.during # {})
       => /\ ~last.real
          /\ last.pushes = {}

\* unlogMigration was called while a procedure was running
C9_Witness ==
    /\ last.op = "unlogMigration"
    /\ \E r \in last.during : run[r].pc = "running"
    /\ ~last.real

\* C10: when loading a migration module or its procedure throws, the promise
\* of up()/down() rejects with that very error and carries no value, and by
\* then restore() has run: the three references are the executor's originals.
C10_ErrorsPropagate ==
    \A r \in slots :
        (run[r].pc = "done" /\ obs[r].raised \in {LoadError, ProcedureError})
        => /\ run[r].promise.kind = "rejected"
           /\ run[r].promise.error = obs[r].raised
           /\ run[r].promise.value = NoValue
           /\ obs[r].restores = 1
           /\ query = originals[run[r].exec].query
           /\ logMigration = originals[run[r].exec].logMigration
           /\ unlogMigration = originals[run[r].exec].unlogMigration

\* the module of the second pending migration could not be loaded
C10_Witness ==
    \E r \in slots :
        /\ run[r].pc = "done"
        /\ obs[r].raised = LoadError
        /\ Len(run[r].results) = 1
        /\ run[r].promise.kind = "rejected"

\* C11: at the start of every run of up()/down() the executor's capture
\* buffer is empty: nothing captured by an earlier run, settled either way,
\* is still in it.
C11_BufferEmptyAtRunStart ==
    \A r \in slots :
        run[r].pc # "idle" => obs[r].preLen = 0

\* C12: createDryRun throws synchronously when options.sequelize or
\* options.migrationsPath is omitted, and returns an executor otherwise; a
\* call that throws leaves sequelize.query, logMigration and unlogMigration
\* (and everything else) as they were.
C12_ConstructionFailsUnpatched ==
    [][(last.op = "none" /\ last'.op = "createDryRun")
       => /\ ~last'.options.sequelize
             => last'.result = "Error: sequelize instance is required"
          /\ (last'.options.sequelize /\ ~last'.options.migrationsPath)
             => last'.result = "Error: migrationsPath is required"
          /\ (last'.options.sequelize /\ last'.options.migrationsPath)
             => last'.result = "executor"
          /\ last'.result # "executor"
             => UNCHANGED <<query, logMigration, unlogMigration, created, tableName,
                            originals, boundTarget, capturedQueries, run, obs>>]_vars

\* createDryRun was called with a handle but without a migrations path
C12_Witness ==
    /\ last.op = "createDryRun"
    /\ last.options.sequelize
    /\ ~last.options.migrationsPath
    /\ last.result = "Error: migrationsPath is required"
    /\ query = RealQuery

\* s is the synthetic insert / delete statement for some migration on table t
IsSyntheticInsert(s, t) ==
    \E n \in MigrationNames :
        s = <<"INSERT INTO ", BQ>> \o t \o <<BQ, " (", BQ, "name", BQ, ") VALUES ('">>
                \o n \o <<"');">>

IsSyntheticDelete(s, t) ==
    \E n \in MigrationNames :
        s = <<"DELETE FROM ", BQ>> \o t \o <<BQ, " WHERE ", BQ, "name", BQ, " = '">>
                \o n \o <<"';">>

\* the run of slot r left discovery because the runner's list was empty
NothingToDo(r) ==
    /\ Len(obs[r].lifecycle) >= 3
    /\ obs[r].lifecycle[3] = "NoPending"

\* C13: up() with no pending migration returns at once with an empty array:
\* no module is loaded, no up-procedure and no onMigration is invoked, no
\* synthetic statement is appended, and restore() still runs before the
\* promise fulfils.
C13_UpNothingPending ==
    \A r \in slots :
        (run[r].dir = "up" /\ NothingToDo(r))
        => /\ run[r].pc \in {"finally", "done"}
           /\ obs[r].invoked = <<>>
           /\ obs[r].callbacks = <<>>
           /\ obs[r].raised = NoError
           /\ run[r].results = <<>>
           /\ \A k \in (obs[r].preLen + 1)..Len(capturedQueries[run[r].exec]) :
                  ~IsSyntheticInsert(capturedQueries[run[r].exec][k],
                                     tableName[run[r].exec])
           /\ run[r].pc = "done"
              => /\ run[r].promise.kind = "fulfilled"
                 /\ run[r].promise.value = [type |-> "array", items |-> <<>>]
                 /\ obs[r].restores = 1
                 /\ obs[r].lifecycle =
                        <<"Installed", "Discovering", "NoPending", "Restored">>
                 /\ query = originals[run[r].exec].query

\* an up() given onMigration found nothing pending and has fulfilled, on an
\* executor whose earlier run had captured statements
C13_Witness ==
    \E r \in slots :
        /\ run[r].dir = "up"
        /\ NothingToDo(r)
        /\ run[r].pc = "done"
        /\ run[r].onMigration
        /\ obs[r].preLen > 0
        /\ run[r].promise.kind = "fulfilled"

\* C14: down() with no executed migration returns null and no Migration
\* Result: no down-procedure and no onMigration is invoked, no synthetic
\* delete is appended, and restore() still runs before the promise fulfils.
C14_DownNothingExecuted ==
    \A r \in slots :
        (run[r].dir = "down" /\ NothingToDo(r))
        => /\ run[r].pc \in {"finally", "done"}
           /\ obs[r].invoked = <<>>
           /\ obs[r].callbacks = <<>>
           /\ obs[r].raised = NoError
           /\ run[r].results = <<>>
           /\ \A k \in (obs[r].preLen + 1)..Len(capturedQueries[run[r].exec]) :
                  ~IsSyntheticDelete(capturedQueries[run[r].exec][k],
                                     tableName[run[r].exec])
           /\ run[r].pc = "done"
              => /\ run[r].promise.kind = "fulfilled"
                 /\ run[r].promise.value.type = "null"
                 /\ run[r].promise.value.items = <<>>
                 /\ obs[r].restores = 1
                 /\ obs[r].lifecycle =
                        <<"Installed", "Discovering", "NoPending", "Restored">>
                 /\ query = originals[run[r].exec].query

\* a down() given onMigration found nothing executed and has fulfilled
C14_Witness ==
    \E r \in slots :
        /\ run[r].dir = "down"
        /\ NothingToDo(r)
        /\ run[r].pc = "done"
        /\ run[r].onMigration
        /\ run[r].promise.value.type = "null"

\* the positions of out where a numbered entry "i. " begins
Entries(out) ==
    {k \in 1..(Len(out) - 1) :
        /\ out[k] \in {ToString(i) : i \in 1..(MaxStatements + 1)}
        /\ out[k + 1] = ". "}

\* the position of the entry numbered i
EntryAt(out, i) == CHOOSE k \in Entries(out) : out[k] = ToString(i)

\* C15: the output of formatQueries is determined by its arguments; for an
\* empty list it holds the marker "(No SQL generated)" and no numbered entry;
\* for N >= 1 statements it holds exactly N numbered entries, entry i being
\* "i. " followed by statement i, in the order of the list, repeated
\* statements included, and no marker.
C15_FormatEntries ==
    rendered.output # <<>>
    => LET out == rendered.output
           queries == rendered.queries
           n == Len(queries)
       IN  /\ n = 0 => /\ includes(out, <<"(No SQL generated)\n">>)
                       /\ Entries(out) = {}
           /\ n >= 1 => /\ ~includes(out, <<"(No SQL generated)\n">>)
                       /\ Cardinality(Entries(out)) = n
                       /\ \A i \in 1..n :
                              /\ \E k \in Entries(out) : out[k] = ToString(i)
                              /\ SubSeq(out, EntryAt(out, i) + 2,
                                         EntryAt(out, i) + 2 + Len(queries[i]))
                                     = queries[i] \o <<"\n">>
                       /\ \A j \in 1..(n - 1) : EntryAt(out, j) < EntryAt(out, j + 1)

\* a list of three statements whose first and last are the same was rendered
C15_Witness ==
    /\ rendered.output # <<>>
    /\ Len(rendered.queries) = 3
    /\ rendered.queries[1] = rendered.queries[3]
    /\ rendered.queries[1] # rendered.queries[2]

\* the empty list was rendered
C15_WitnessEmpty ==
    /\ rendered.output # <<>>
    /\ rendered.queries = <<>>

\* C16: for every captured string statement the patched sequelize.query
\* returns an inert value chosen by options.type alone: [0, 0] for INSERT,
\* UPDATE and DELETE, [[], {}] for every other type, SELECT and no type
\* included; the value never comes from the real execution function.
C16_InertResultByType ==
    (/\ PatchedCall
     /\ last.sql.typeof = "string"
     /\ last.fn.exec \in last.pushes)
    => /\ last.options.type \in {"INSERT", "UPDATE", "DELETE"}
          => last.result = "[0, 0]"
       /\ last.options.type \notin {"INSERT", "UPDATE", "DELETE"}
          => last.result = "[[], {}]"
       /\ last.result # "rows from the database"

\* the synthetic insert of one migration on table t
SyntheticInsertOf(t, name) ==
    <<"INSERT INTO ", BQ>> \o t \o <<BQ, " (", BQ, "name", BQ, ") VALUES ('">>
        \o name \o <<"');">>

\* the calls of onMigration an up() owes for its first n pending migrations
CallbacksDue(r, n) ==
    IF run[r].onMigration
    THEN [k \in 1..n |-> [name |-> run[r].list[k], queries |-> run[r].results[k].sql]]
    ELSE <<>>

\* C17: up() takes the pending migrations one at a time in the runner's
\* order: the procedure of migration i+1 is started only when migration i's
\* procedure has returned, its synthetic insert is pushed, its result is
\* collected and onMigration has been called for it; a fulfilled up() returns
\* one result per pending migration in that order, and onMigration, if given,
\* has been called once per migration with its name and its statement list.
C17_UpSequentialInOrder ==
    \A r \in slots :
        run[r].dir = "up"
        => LET n == Len(run[r].results)
           IN  /\ Len(obs[r].invoked) \in {n, n + 1}
               /\ run[r].pc = "running" => Len(obs[r].invoked) = n + 1
               /\ run[r].pc = "loop" => (Len(obs[r].invoked) = n /\ run[r].i = n + 1)
               /\ \A k \in 1..Len(obs[r].invoked) :
                      obs[r].invoked[k] = [name |-> run[r].list[k], procedure |-> "up"]
               /\ \A k \in 1..n :
                      /\ run[r].results[k].name = run[r].list[k]
                      /\ run[r].results[k].direction = "up"
                      /\ run[r].results[k].sql[Len(run[r].results[k].sql)] =
                             SyntheticInsertOf(tableName[run[r].exec], run[r].list[k])
               /\ obs[r].callbacks = CallbacksDue(r, n)
               /\ (run[r].pc = "done" /\ run[r].promise.kind = "fulfilled")
                  => /\ run[r].promise.value.type = "array"
                     /\ run[r].promise.value.items = run[r].results
                     /\ n = Len(run[r].list)

\* an up() given onMigration has fulfilled with the results of two pending
\* migrations
C17_Witness ==
    \E r \in slots :
        /\ run[r].dir = "up"
        /\ run[r].pc = "done"
        /\ run[r].promise.kind = "fulfilled"
        /\ run[r].onMigration
        /\ Len(run[r].promise.value.items) = 2
        /\ Len(obs[r].callbacks) = 2

\* C18: when up() fails loading or running its k-th pending migration,
\* onMigration has been called for exactly migrations 1..k-1, in order, no
\* procedure after the k-th has been started, and the synthetic insert of
\* migration k has not been pushed.
C18_UpFailureStopsAtK ==
    \A r \in slots :
        (run[r].dir = "up" /\ obs[r].raised \in {LoadError, ProcedureError})
        => LET k == run[r].i
               buf == capturedQueries[run[r].exec]
           IN  /\ run[r].pc \in {"finally", "done"}
               /\ Len(run[r].results) = k - 1
               /\ obs[r].callbacks = CallbacksDue(r, k - 1)
               /\ Len(obs[r].invoked) = IF obs[r].raised = LoadError THEN k - 1 ELSE k
               /\ \A j \in 1..Len(obs[r].invoked) :
                      obs[r].invoked[j].name = run[r].list[j]
               /\ \A p \in (run[r].startIdx + 1)..Len(buf) :
                      buf[p] # SyntheticInsertOf(tableName[run[r].exec], run[r].list[k])

\* an up() given onMigration has rejected because the procedure of its second
\* pending migration threw after issuing a statement
C18_Witness ==
    \E r \in slots :
        /\ run[r].dir = "up"
        /\ run[r].pc = "done"
        /\ obs[r].raised = ProcedureError
        /\ run[r].i = 2
        /\ run[r].onMigration
        /\ Len(obs[r].callbacks) = 1
        /\ Len(capturedQueries[run[r].exec]) > run[r].startIdx

\* s is a statement that changes the database
MutatingStatement(s) ==
    /\ Len(s) > 0
    /\ s[1] \in {"CREATE TABLE ", "DROP TABLE ", "INSERT INTO ", "DELETE FROM "}

\* the call in progress is a mutating string statement issued by the
\* migration of a run that has installed and not yet restored
MigrationIssuesMutating ==
    /\ last.op = "query"
    /\ last.caller \in slots
    /\ last.caller \in last.during
    /\ run[last.caller].pc = "running"
    /\ last.sql.typeof = "string"
    /\ MutatingStatement(last.sql.value)

\* the statement list of the k-th result of run r is what its own migration
\* issued and had captured, followed by its synthetic insert
OwnStatementsOnly(r, k) ==
    run[r].results[k].sql =
        obs[r].expected[k]
        \o <<SyntheticInsertOf(tableName[run[r].exec], run[r].list[k])>>

====
